---- MODULE Spec2Model ----
(***************************************************************************)
(* Model of the e-mail validator (src/main.py): the format check, the two  *)
(* DNS probes, validate_email, the single-address command and the          *)
(* thread-pool batch run of validate_file.                                 *)
(*                                                                         *)
(* Strings are sequences of one-character strings.  Python values that may *)
(* be None are modelled as the strings "None", "True" and "False".         *)
(***************************************************************************)
EXTENDS Integers, Sequences, FiniteSets, TLC

(***************************************************************************)
(* Bounds of the model                                                     *)
(***************************************************************************)
\* longest address string given to the "validate" command
MaxLen == 7
\* most lines of the input file of the "file" command
MaxN == 3
\* largest pool size (--workers)
MaxWorkers == 3

\* the characters the model's strings are built from: a letter, a character
\* of the local part's class only, the separator, the dot and a blank
Alphabet == {"a", "+", "@", ".", " "}

\* the lines the input file is built from
FileLines ==
  { <<"a", "a">>,
    <<" ", "a", "@", "a", ".", "a", "a">>,
    <<"a", "@", ".", ".", "a", "a">>,
    <<" ">> }

(***************************************************************************)
(* Strings                                                                 *)
(***************************************************************************)
Whitespace == {" ", "\n", "\t", "\r"}

Letters == {"a"}

Digits == {"1"}

\* [a-zA-Z0-9._%+-]
LocalClass == Letters \cup Digits \cup {".", "_", "%", "+", "-"}

\* [a-zA-Z0-9.-]
DomainClass == Letters \cup Digits \cup {".", "-"}

\* [a-zA-Z]
TldClass == Letters

AllIn(s, from, to, class) == \A k \in from..to : s[k] \in class

\* str.strip(): drop leading and trailing whitespace
RECURSIVE LStrip(_)
LStrip(s) ==
  IF s # <<>> /\ Head(s) \in Whitespace THEN LStrip(Tail(s)) ELSE s

RECURSIVE RStrip(_)
RStrip(s) ==
  IF s # <<>> /\ s[Len(s)] \in Whitespace
    THEN RStrip(SubSeq(s, 1, Len(s) - 1)) ELSE s

Strip(s) == RStrip(LStrip(s))

\* the pattern EMAIL_REGEX matched on s[from..to]: "$" accepts the end of the
\* string and the position before a final newline
PatternMatches(s, from, to) ==
  /\ \/ to = Len(s)
     \/ Len(s) > 0 /\ to = Len(s) - 1 /\ s[Len(s)] = "\n"
  /\ \E at \in from + 1 .. to :
       /\ s[at] = "@"
       /\ AllIn(s, from, at - 1, LocalClass)
       /\ \E dot \in at + 2 .. to - 2 :
            /\ s[dot] = "."
            /\ AllIn(s, at + 1, dot - 1, DomainClass)
            /\ AllIn(s, dot + 1, to, TldClass)

\* re.match(EMAIL_REGEX, s): "^" anchors the match at the first character
ReMatch(s) == \E to \in {Len(s) - 1, Len(s)} : PatternMatches(s, 1, to)

validate_format(email) == ReMatch(Strip(email))

\* email.split('@')[1]: the piece between the first and the second '@'
SplitDomain(email) ==
  LET ats   == {k \in 1..Len(email) : email[k] = "@"}
      first == CHOOSE k \in ats : \A m \in ats : k <= m
      rest  == {k \in ats : k > first}
      stop  == IF rest = {} THEN Len(email) + 1
               ELSE CHOOSE k \in rest : \A m \in rest : k <= m
  IN  SubSeq(email, first + 1, stop - 1)

(***************************************************************************)
(* State                                                                   *)
(***************************************************************************)
VARIABLES
  command,       \* args.command: "validate" or "file"
  emails,        \* validate: <<args.email>>; file: the list read at line 103
  check_mx,      \* not args.no_mx
  check_domain,  \* not args.no_domain
  workers,       \* args.workers
  dns,           \* the DNS state: what each well-formed domain resolves to
  mainpc,        \* where the main thread is
  frame,         \* the main thread's validate_email call ("validate")
  submitted,     \* how many futures the executor has been handed
  task,          \* per submitted address: its future and its worker's call
  results,       \* validate_file's result list
  processed,     \* validate_file's counter
  output,        \* what has been printed, in order
  text,          \* extract: the content of the input file (line 181)
  written        \* the content of the output file

vars ==
  <<command, emails, check_mx, check_domain, workers, dns, mainpc, frame,
    submitted, task, results, processed, output, text, written>>

(***************************************************************************)
(* The resolver                                                            *)
(***************************************************************************)
\* what an MX query of a well-formed name can end in: an answer, the two
\* exceptions line 24 names, and any other failure (here a timeout)
MxOutcomes == {"records", "NoAnswer", "NXDOMAIN", "Timeout"}

\* what gethostbyname of a well-formed name can end in
AddrOutcomes == {"address", "gaierror"}

\* a name with an empty label cannot be encoded: dnspython raises EmptyLabel
\* and gethostbyname's idna encoding raises UnicodeError before any lookup
HasEmptyLabel(domain) ==
  \/ domain = <<>>
  \/ domain[1] = "."
  \/ \E k \in 1..Len(domain) - 1 : domain[k] = "." /\ domain[k + 1] = "."

MxLookup(domain) ==
  IF HasEmptyLabel(domain) THEN "EmptyLabel" ELSE dns[domain].mx

AddrLookup(domain) ==
  IF HasEmptyLabel(domain) THEN "UnicodeError" ELSE dns[domain].addr

Returned(value) == [raised |-> FALSE, value |-> value, exc |-> "none"]

Raised(exc) == [raised |-> TRUE, value |-> FALSE, exc |-> exc]

check_mx_records(domain) ==
  LET outcome == MxLookup(domain)
  IN  IF outcome = "records" THEN Returned(TRUE)
      ELSE IF outcome \in {"NoAnswer", "NXDOMAIN"} THEN Returned(FALSE)
      ELSE Returned(FALSE)

check_domain_exists(domain) ==
  LET outcome == AddrLookup(domain)
  IN  IF outcome = "address" THEN Returned(TRUE)
      ELSE IF outcome = "gaierror" THEN Returned(FALSE)
      ELSE Raised(outcome)

(***************************************************************************)
(* validate_email, one statement group at a time                           *)
(***************************************************************************)
PyBool(b) == IF b THEN "True" ELSE "False"

\* Python's "not v" for v in None, True, False
PyNot(v) == v \in {"None", "False"}

\* lines 39-46: the call's frame once the address is trimmed and the result
\* dictionary is built
Call(email) ==
  LET e == Strip(email)
  IN  [pc |-> "format", email |-> e, domain |-> <<>>,
       results |-> [email |-> e, valid_format |-> FALSE, has_mx |-> "None",
                    domain_exists |-> "None", status |-> "invalid"],
       calls |-> <<>>, exc |-> "none"]

\* StepFormat without the early return of line 50: a failed format check
\* falls through to the probes
StepFormatFallsThrough(f) ==
  IF ~validate_format(f.email)
    THEN [f EXCEPT !.pc = "mx"]
    ELSE [f EXCEPT !.pc = "split", !.results.valid_format = TRUE]

\* lines 49-52
StepFormat(f) ==
  IF ~validate_format(f.email)
    THEN [f EXCEPT !.pc = "returned"]
    ELSE [f EXCEPT !.pc = "split", !.results.valid_format = TRUE]

\* line 55
StepSplit(f) == [f EXCEPT !.pc = "mx", !.domain = SplitDomain(f.email)]

\* StepMx storing the probe's result only when it is true
StepMxDropsFalse(f) ==
  IF check_mx
    THEN LET r == check_mx_records(f.domain)
             log == Append(f.calls, [probe |-> "mx", domain |-> f.domain, ret |-> r])
         IN  IF r.value
               THEN [f EXCEPT !.pc = "exists", !.calls = log,
                              !.results.has_mx = "True"]
               ELSE [f EXCEPT !.pc = "exists", !.calls = log]
    ELSE [f EXCEPT !.pc = "exists"]

\* lines 58-59
StepMx(f) ==
  IF check_mx
    THEN LET r == check_mx_records(f.domain)
             log == Append(f.calls, [probe |-> "mx", domain |-> f.domain, ret |-> r])
         IN  IF r.raised
               THEN [f EXCEPT !.pc = "raised", !.exc = r.exc, !.calls = log]
               ELSE [f EXCEPT !.pc = "exists", !.calls = log,
                              !.results.has_mx = PyBool(r.value)]
    ELSE [f EXCEPT !.pc = "exists"]

\* StepExists without the test of check_domain
StepExistsAlways(f) ==
  LET r == check_domain_exists(f.domain)
      log == Append(f.calls, [probe |-> "exists", domain |-> f.domain, ret |-> r])
  IN  IF r.raised
        THEN [f EXCEPT !.pc = "raised", !.exc = r.exc, !.calls = log]
        ELSE [f EXCEPT !.pc = "status", !.calls = log,
                       !.results.domain_exists = PyBool(r.value)]

\* lines 62-63
StepExists(f) ==
  IF check_domain
    THEN LET r == check_domain_exists(f.domain)
             log == Append(f.calls, [probe |-> "exists", domain |-> f.domain, ret |-> r])
         IN  IF r.raised
               THEN [f EXCEPT !.pc = "raised", !.exc = r.exc, !.calls = log]
               ELSE [f EXCEPT !.pc = "status", !.calls = log,
                              !.results.domain_exists = PyBool(r.value)]
    ELSE [f EXCEPT !.pc = "status"]

\* StepStatus demoting only when every requested check failed
StepStatusAnd(f) ==
  IF f.results.valid_format
    THEN IF /\ check_mx /\ PyNot(f.results.has_mx)
            /\ check_domain /\ PyNot(f.results.domain_exists)
           THEN [f EXCEPT !.pc = "returned", !.results.status = "doubtful"]
           ELSE [f EXCEPT !.pc = "returned", !.results.status = "valid"]
    ELSE [f EXCEPT !.pc = "returned"]

\* StepStatus leaving the initial status when every requested check failed
StepStatusKeepsInvalid(f) ==
  IF f.results.valid_format
    THEN IF /\ check_mx /\ PyNot(f.results.has_mx)
            /\ check_domain /\ PyNot(f.results.domain_exists)
           THEN [f EXCEPT !.pc = "returned"]
           ELSE IF \/ check_mx /\ PyNot(f.results.has_mx)
                   \/ check_domain /\ PyNot(f.results.domain_exists)
                  THEN [f EXCEPT !.pc = "returned", !.results.status = "doubtful"]
                  ELSE [f EXCEPT !.pc = "returned", !.results.status = "valid"]
    ELSE [f EXCEPT !.pc = "returned"]

\* lines 66-72
StepStatus(f) ==
  IF f.results.valid_format
    THEN IF \/ check_mx /\ PyNot(f.results.has_mx)
            \/ check_domain /\ PyNot(f.results.domain_exists)
           THEN [f EXCEPT !.pc = "returned", !.results.status = "doubtful"]
           ELSE [f EXCEPT !.pc = "returned", !.results.status = "valid"]
    ELSE [f EXCEPT !.pc = "returned"]

Over(f) == f.pc \in {"returned", "raised"}

Step(f) ==
  CASE f.pc = "format" -> StepFormat(f)
    [] f.pc = "split"  -> StepSplit(f)
    [] f.pc = "mx"     -> StepMx(f)
    [] f.pc = "exists" -> StepExists(f)
    [] f.pc = "status" -> StepStatus(f)

RECURSIVE Run(_)
Run(f) == IF Over(f) THEN f ELSE Run(Step(f))

\* validate_email keeping has_mx in a dictionary shared between the calls:
\* the value of the result collected last leaks into this call's result
validate_email_shared(email) ==
  LET f == Run(Call(email))
  IN  IF f.pc = "returned" /\ Len(results) > 0
        THEN [f EXCEPT !.results.has_mx = results[Len(results)].has_mx]
        ELSE f

\* the whole call, as a worker of the pool runs it
validate_email(email) == Run(Call(email))

(***************************************************************************)
(* The inputs                                                              *)
(***************************************************************************)
StringsUpTo(n) == UNION {[1..k -> Alphabet] : k \in 0..n}

Range(seq) == {seq[k] : k \in 1..Len(seq)}

\* the domains the probes can be asked about and that a lookup is made for
QueriedDomains(addresses) ==
  {d \in {SplitDomain(Strip(e)) : e \in {a \in Range(addresses) : validate_format(a)}} :
     ~HasEmptyLabel(d)}

DnsStates(addresses) ==
  [QueriedDomains(addresses) -> [mx : MxOutcomes, addr : AddrOutcomes]]

\* the output file before anything is written to it
NoFile == [format |-> "none", rows |-> <<>>]

\* the values of the variables a command does not use
NoPool ==
  /\ submitted = 0
  /\ task = <<>>
  /\ results = <<>>
  /\ processed = 0

NoText == text = <<>>

(***************************************************************************)
(* "validate": validate_single_email                                       *)
(***************************************************************************)
InitValidate ==
  /\ command = "validate"
  /\ \E email \in StringsUpTo(MaxLen) : emails = <<email>>
  /\ check_mx \in BOOLEAN
  /\ check_domain \in BOOLEAN
  /\ workers = 0
  /\ dns \in DnsStates(emails)
  /\ mainpc = "validate_email"
  /\ frame = Call(emails[1])
  /\ NoPool
  /\ NoText
  /\ output = <<>>
  /\ written = NoFile

\* line 76, the call's next statement group
ValidateStep ==
  /\ mainpc = "validate_email"
  /\ ~Over(frame)
  /\ frame' = Step(frame)
  /\ UNCHANGED <<text, written, command, emails, check_mx, check_domain, workers, dns, mainpc,
                 submitted, task, results, processed, output>>

Mark(v) == IF v = "True" THEN "ok" ELSE "fail"

\* lines 78-92
Report(email, r) ==
  [kind |-> "report", email |-> email,
   format |-> IF r.valid_format THEN "ok" ELSE "fail",
   mx |-> IF r.valid_format /\ check_mx THEN Mark(r.has_mx) ELSE "not shown",
   domain |-> IF r.valid_format /\ check_domain THEN Mark(r.domain_exists)
              ELSE "not shown",
   status |-> IF r.valid_format THEN r.status ELSE "invalid"]

\* lines 76-94: the call has returned, the report is printed
ValidateReturn ==
  /\ mainpc = "validate_email"
  /\ frame.pc = "returned"
  /\ output' = Append(output, Report(emails[1], frame.results))
  /\ mainpc' = "done"
  /\ UNCHANGED <<text, written, command, emails, check_mx, check_domain, workers, dns, frame,
                 submitted, task, results, processed>>

\* line 76: the call raised; nothing up to main catches it
ValidateRaise ==
  /\ mainpc = "validate_email"
  /\ frame.pc = "raised"
  /\ mainpc' = "crashed"
  /\ UNCHANGED <<text, written, command, emails, check_mx, check_domain, workers, dns, frame,
                 submitted, task, results, processed, output>>

NextValidate == ValidateStep \/ ValidateReturn \/ ValidateRaise

SpecValidate == InitValidate /\ [][NextValidate]_vars

(***************************************************************************)
(* "file": validate_file and its thread pool                               *)
(***************************************************************************)
SeqsUpTo(S, n) == UNION {[1..k -> S] : k \in 0..n}

\* line 103: the stripped lines that are not empty
RECURSIVE ReadEmails(_)
ReadEmails(lines) ==
  IF lines = <<>> THEN <<>>
  ELSE IF Strip(Head(lines)) = <<>> THEN ReadEmails(Tail(lines))
  ELSE <<Strip(Head(lines))>> \o ReadEmails(Tail(lines))

NoCall == [Call(<<>>) EXCEPT !.pc = "no call"]

InitFile ==
  /\ command = "file"
  /\ \E lines \in SeqsUpTo(FileLines, MaxN) : emails = ReadEmails(lines)
  /\ check_mx \in BOOLEAN
  /\ check_domain \in BOOLEAN
  /\ workers \in 1..MaxWorkers
  /\ dns \in DnsStates(emails)
  /\ mainpc = "check"
  /\ frame = NoCall
  /\ NoPool
  /\ NoText
  /\ output = <<>>
  /\ written = NoFile

Tasks == 1..Len(task)

Queued == {t \in Tasks : task[t].state = "queued"}

\* the invocations in flight: started by a worker and not yet completed
Running == {t \in Tasks : task[t].state = "running"}

Finished == {t \in Tasks : task[t].state = "finished"}

\* CheckEmpty without the test of line 108
CheckEmptyNoTest ==
  /\ mainpc = "check"
  /\ output' = Append(output, [kind |-> "validating", n |-> Len(emails)])
  /\ mainpc' = IF Len(emails) = 0 THEN "summary" ELSE "submit"
  /\ UNCHANGED <<text, written, command, emails, check_mx, check_domain, workers, dns, frame,
                 submitted, task, results, processed>>

\* lines 108-112
CheckEmpty ==
  /\ mainpc = "check"
  /\ IF Len(emails) = 0
       THEN /\ output' = Append(output, [kind |-> "no emails"])
            /\ mainpc' = "done"
       ELSE /\ output' = Append(output, [kind |-> "validating", n |-> Len(emails)])
            /\ mainpc' = "submit"
  /\ UNCHANGED <<text, written, command, emails, check_mx, check_domain, workers, dns, frame,
                 submitted, task, results, processed>>

\* lines 117-120: executor.submit for the next address; after the last one
\* the main thread enters the as_completed loop
Submit ==
  /\ mainpc = "submit"
  /\ submitted < Len(emails)
  /\ submitted' = submitted + 1
  /\ task' = Append(task, [state |-> "queued", email |-> emails[submitted + 1],
                           yielded |-> FALSE, frame |-> NoCall])
  /\ mainpc' = IF submitted + 1 = Len(emails) THEN "collect" ELSE "submit"
  /\ UNCHANGED <<text, written, command, emails, check_mx, check_domain, workers, dns, frame,
                 results, processed, output>>

\* CanStart of a pool that starts a thread per work item
CanStartUnbounded(t) ==
  /\ t \in Queued
  /\ \A u \in Queued : t <= u

\* a pool thread takes the oldest queued work item; the pool has at most
\* max_workers threads
CanStart(t) ==
  /\ t \in Queued
  /\ \A u \in Queued : t <= u
  /\ Cardinality(Running) < workers

WorkerStart(t) ==
  /\ CanStart(t)
  /\ task' = [task EXCEPT ![t].state = "running"]
  /\ UNCHANGED <<text, written, command, emails, check_mx, check_domain, workers, dns, mainpc,
                 frame, submitted, results, processed, output>>

\* the work item's call ends: the future gets its result or its exception
WorkerFinish(t) ==
  /\ t \in Running
  /\ task' = [task EXCEPT ![t].state = "finished",
                          ![t].frame = validate_email(task[t].email)]
  /\ UNCHANGED <<text, written, command, emails, check_mx, check_domain, workers, dns, mainpc,
                 frame, submitted, results, processed, output>>

\* line 127
Progress(done, total) == [num |-> done * 100, den |-> total]

\* what as_completed can yield next
Ready(t) == t \in Finished /\ ~task[t].yielded

\* CollectResult without the increment of line 124
CollectResultNoIncrement(t) ==
  /\ mainpc = "collect"
  /\ Ready(t)
  /\ task[t].frame.pc = "returned"
  /\ task' = [task EXCEPT ![t].yielded = TRUE]
  /\ results' = Append(results, task[t].frame.results)
  /\ processed' = processed
  /\ output' = Append(output, [kind |-> "progress",
                               value |-> Progress(processed, Len(emails))])
  /\ mainpc' = IF \A u \in 1..Len(emails) : u = t \/ (u \in Tasks /\ task[u].yielded)
                 THEN "summary" ELSE "collect"
  /\ UNCHANGED <<text, written, command, emails, check_mx, check_domain, workers, dns, frame,
                 submitted>>

\* lines 121-128 for a future that holds a result
CollectResult(t) ==
  /\ mainpc = "collect"
  /\ Ready(t)
  /\ task[t].frame.pc = "returned"
  /\ task' = [task EXCEPT ![t].yielded = TRUE]
  /\ results' = Append(results, task[t].frame.results)
  /\ processed' = processed + 1
  /\ output' = Append(output, [kind |-> "progress",
                               value |-> Progress(processed + 1, Len(emails))])
  /\ mainpc' = IF \A u \in 1..Len(emails) : u = t \/ (u \in Tasks /\ task[u].yielded)
                 THEN "summary" ELSE "collect"
  /\ UNCHANGED <<text, written, command, emails, check_mx, check_domain, workers, dns, frame,
                 submitted>>

\* line 122 for a future that holds an exception: result() raises it, the
\* loop is left and the with block shuts the executor down
CollectRaise(t) ==
  /\ mainpc = "collect"
  /\ Ready(t)
  /\ task[t].frame.pc = "raised"
  /\ task' = [task EXCEPT ![t].yielded = TRUE]
  /\ mainpc' = "shutdown"
  /\ UNCHANGED <<text, written, command, emails, check_mx, check_domain, workers, dns, frame,
                 submitted, results, processed, output>>

\* line 116: shutdown(wait=True) returns when every work item has run, and
\* the exception leaves validate_file and main
Propagate ==
  /\ mainpc = "shutdown"
  /\ Finished = Tasks
  /\ mainpc' = "crashed"
  /\ UNCHANGED <<text, written, command, emails, check_mx, check_domain, workers, dns, frame,
                 submitted, task, results, processed, output>>

Count(status) == Cardinality({k \in 1..Len(results) : results[k].status = status})

YesNo(b) == IF b THEN "Yes" ELSE "No"

\* TriColumn without the test for None
TriColumnNoNone(v) == IF v = "True" THEN "Yes" ELSE "No"

\* lines 158-159: 'Yes' if v else 'No' if v is not None else 'N/A'
TriColumn(v) ==
  IF v = "True" THEN "Yes"
  ELSE IF v # "None" THEN "No"
  ELSE "N/A"

\* line 152
CsvHeader ==
  [email |-> "Email", format_valid |-> "Format Valid", has_mx |-> "Has MX",
   domain_exists |-> "Domain Exists", status |-> "Status"]

\* lines 155-161
CsvRow(r) ==
  [email |-> r.email, format_valid |-> YesNo(r.valid_format),
   has_mx |-> TriColumn(r.has_mx), domain_exists |-> TriColumn(r.domain_exists),
   status |-> r.status]

\* lines 146-165: what the output file holds afterwards
save_results(res, format) ==
  IF format = "csv"
    THEN [format |-> "csv",
          rows |-> <<CsvHeader>> \o [k \in 1..Len(res) |-> CsvRow(res[k])]]
    ELSE [format |-> "json", rows |-> res]

\* lines 130-144: the summary, then the results are saved when an output
\* file was given
Summary ==
  /\ mainpc = "summary"
  /\ \E output_file \in BOOLEAN, format \in {"csv", "json"} :
       /\ output' = output \o
            << [kind |-> "complete"],
               [kind |-> "summary", valid |-> Count("valid"),
                doubtful |-> Count("doubtful"), invalid |-> Count("invalid")] >>
            \o (IF output_file THEN <<[kind |-> "saved"]>> ELSE <<>>)
       /\ written' = IF output_file THEN save_results(results, format) ELSE written
  /\ mainpc' = "done"
  /\ UNCHANGED <<text, command, emails, check_mx, check_domain, workers, dns, frame,
                 submitted, task, results, processed>>

NextFile ==
  \/ CheckEmpty
  \/ Submit
  \/ \E t \in Tasks : WorkerStart(t)
  \/ \E t \in Tasks : WorkerFinish(t)
  \/ \E t \in Tasks : CollectResult(t)
  \/ \E t \in Tasks : CollectRaise(t)
  \/ Propagate
  \/ Summary

SpecFile == InitFile /\ [][NextFile]_vars

(***************************************************************************)
(* "extract": extract_from_file                                            *)
(***************************************************************************)
\* re.findall(EMAIL_REGEX, text): the matches found scanning the text from
\* left to right.  The pattern starts with "^" and is used without
\* re.MULTILINE, so a match can start at the first character only, and it
\* ends, by "$", at the end of the text or before its final newline.
FindAll(s) ==
  LET ends == {to \in {Len(s) - 1, Len(s)} : PatternMatches(s, 1, to)}
  IN  IF ends = {} THEN <<>>
      ELSE <<SubSeq(s, 1, CHOOSE to \in ends : \A other \in ends : other <= to)>>

\* lines 174-175: list(set(...)), a collection without duplicates
extract_emails_from_text(s) == Range(FindAll(s))

InitExtract ==
  /\ command = "extract"
  /\ text \in StringsUpTo(MaxLen)
  /\ emails = <<>>
  /\ check_mx = TRUE
  /\ check_domain = TRUE
  /\ workers = 0
  /\ dns \in DnsStates(emails)
  /\ mainpc = "extract"
  /\ frame = NoCall
  /\ NoPool
  /\ output = <<>>
  /\ written = NoFile

\* lines 183-197
Extract ==
  /\ mainpc = "extract"
  /\ LET found == extract_emails_from_text(text)
     IN  IF found = {}
           THEN /\ output' = Append(output, [kind |-> "none found", emails |-> {}])
                /\ written' = written
           ELSE \E output_file \in BOOLEAN :
                  /\ output' = Append(output, [kind |-> "found", emails |-> found])
                  /\ written' = IF output_file
                                  THEN [format |-> "lines", rows |-> found]
                                  ELSE written
  /\ mainpc' = "done"
  /\ UNCHANGED <<text, command, emails, check_mx, check_domain, workers, dns, frame,
                 submitted, task, results, processed>>

NextExtract == Extract

SpecExtract == InitExtract /\ [][NextExtract]_vars

(***************************************************************************)
(* Claims about extraction (SpecExtract)                                   *)
(***************************************************************************)
\* the pattern matches the piece s[from..to] of s, taken as a string
PieceMatches(s, from, to) == PatternMatches(SubSeq(s, from, to), 1, to - from + 1)

\* a piece that matches and lies in no longer piece that matches
MaximalMatch(s, from, to) ==
  /\ PieceMatches(s, from, to)
  /\ \A f \in 1..from, t \in to..Len(s) :
       PieceMatches(s, f, t) => (f = from /\ t = to)

\* C15: extraction.  Once the text is searched, every piece of it that
\* matches the pattern, and is not part of a longer piece that does, is
\* among the addresses found.
C15_FindsEveryAddress ==
  (command = "extract" /\ mainpc = "done") =>
    \A from \in 1..Len(text), to \in 1..Len(text) :
      (from <= to /\ MaximalMatch(text, from, to))
        => SubSeq(text, from, to) \in output[1].emails

(***************************************************************************)
(* Claims about the batch run (SpecFile)                                   *)
(***************************************************************************)
\* the as_completed loop of a batch of at least one address has been left
LoopLeft ==
  /\ command = "file"
  /\ Len(emails) > 0
  /\ mainpc \in {"summary", "done", "shutdown", "crashed"}

Occurrences(seq, x) == Cardinality({k \in 1..Len(seq) : seq[k] = x})

ResultEmails == [k \in 1..Len(results) |-> results[k].email]

Raisers == {t \in Tasks : task[t].frame.pc = "raised"}

ProgressEvents == SelectSeq(output, LAMBDA e : e.kind = "progress")

SummaryEvents == SelectSeq(output, LAMBDA e : e.kind = "summary")

\* C1: batch completeness.  At no point does the result list hold more
\* results for an address than the address was submitted times, and once
\* the pool loop is over it holds exactly one result per submitted address
\* (N in all), each with the trimmed address it was submitted for, also
\* when the validation of an address faults.
C1_BatchComplete ==
  /\ \A e \in Range(ResultEmails) :
       Occurrences(ResultEmails, e) <= Occurrences(emails, e)
  /\ LoopLeft =>
       /\ Len(results) = Len(emails)
       /\ \A e \in Range(emails) :
            Occurrences(ResultEmails, e) = Occurrences(emails, Strip(e))

\* C2: failure isolation.  A fault of one invocation never aborts the batch:
\* the main thread does not leave the run through the exception, and once
\* the run is over the faulting invocation is recorded with status invalid
\* and every address has its result, its progress event and its place in
\* the summary.
C2_FailureIsolation ==
  /\ mainpc \notin {"shutdown", "crashed"}
  /\ (command = "file" /\ mainpc = "done" /\ Len(emails) > 0) =>
       /\ \A t \in Raisers :
            \E k \in 1..Len(results) :
              /\ results[k].email = task[t].email
              /\ results[k].status = "invalid"
       /\ Len(results) = Len(emails)
       /\ Len(ProgressEvents) = Len(emails)
       /\ Len(SummaryEvents) = 1
       /\ LET s == SummaryEvents[1]
          IN  s.valid + s.doubtful + s.invalid = Len(emails)

\* C9: progress.  One progress event is printed per completed invocation,
\* the k-th carrying (k / N) * 100, so the values never decrease; once the
\* loop is over there are N events and the last one is 100.
C9_Progress ==
  LET ev == ProgressEvents
      n  == Len(emails)
  IN  /\ \A k \in 1..Len(ev) : ev[k].value.num * n = k * 100 * ev[k].value.den
      /\ \A k \in 1..Len(ev) - 1 :
           ev[k].value.num * ev[k + 1].value.den
             <= ev[k + 1].value.num * ev[k].value.den
      /\ LoopLeft =>
           /\ Len(ev) = n
           /\ ev[n].value.num = 100 * ev[n].value.den

\* C10: bounded pool.  The invocations in flight, started by a worker and
\* not yet completed, never outnumber the pool size.
C10_BoundedPool == Cardinality(Running) <= workers

\* C10 witness: the pool is full, with more than one invocation in flight,
\* and a submitted address waits for a free worker
C10_Witness ==
  /\ workers >= 2
  /\ Cardinality(Running) = workers
  /\ Queued # {}

ResultStatuses == [k \in 1..Len(results) |-> results[k].status]

\* the run of a batch of at least one address has ended
RunOver ==
  /\ command = "file"
  /\ Len(emails) > 0
  /\ mainpc \in {"done", "crashed"}

\* C11: summary.  The summary is printed exactly once per batch run: never
\* twice, only when all N invocations have completed and their results are
\* collected, after every progress event, with counts that equal the
\* numbers of collected results of each status and sum to N; and a run that
\* has ended has printed it.
C11_Summary ==
  /\ Len(SummaryEvents) <= 1
  /\ Len(SummaryEvents) = 1 =>
       /\ Len(task) = Len(emails)
       /\ Finished = Tasks
       /\ Len(results) = Len(emails)
       /\ \A i, j \in 1..Len(output) :
            (output[i].kind = "summary" /\ output[j].kind = "progress") => j < i
       /\ LET s == SummaryEvents[1]
          IN  /\ s.valid = Occurrences(ResultStatuses, "valid")
              /\ s.doubtful = Occurrences(ResultStatuses, "doubtful")
              /\ s.invalid = Occurrences(ResultStatuses, "invalid")
              /\ s.valid + s.doubtful + s.invalid = Len(emails)
  /\ RunOver => Len(SummaryEvents) = 1

\* C12: empty input.  With no address in the file the run ends at once:
\* nothing is submitted to the pool, no invocation and so no probe is made,
\* the result list stays empty and no progress or summary event is printed.
C12_EmptyInput ==
  (command = "file" /\ Len(emails) = 0) =>
    /\ mainpc \in {"check", "done"}
    /\ submitted = 0
    /\ task = <<>>
    /\ results = <<>>
    /\ processed = 0
    /\ Len(ProgressEvents) = 0
    /\ Len(SummaryEvents) = 0

\* C12 witness: the run on a file without any address has ended
C12_Witness ==
  /\ command = "file"
  /\ Len(emails) = 0
  /\ mainpc = "done"
  /\ output = <<[kind |-> "no emails"]>>

\* the invocations whose result the main thread has collected
Collected == {t \in Tasks : task[t].yielded /\ task[t].frame.pc = "returned"}

\* C17: atomic collect.  In every state, and so whenever a progress event
\* is printed, the counter equals the length of the result list, the number
\* of progress events and the number of collected invocations: no append or
\* increment is lost under any interleaving of completions.
C17_AtomicCollect ==
  /\ processed = Len(results)
  /\ processed = Len(ProgressEvents)
  /\ processed = Cardinality(Collected)
  /\ \A k \in 1..Len(ProgressEvents) :
       ProgressEvents[k].value.num = 100 * k

\* C17 witness: two invocations have completed before the main thread
\* collected either, and both are collected now
C17_Witness ==
  /\ processed = 2
  /\ Len(results) = 2
  /\ workers >= 2
  /\ Cardinality(Collected) = 2

\* C18: termination.  A batch run that has ended has finished: the main
\* thread left validate_file by its last statement, all N invocations are
\* done, the N-th progress event, of 100, and the summary are printed.
C18_EndsFinished ==
  RunOver =>
    /\ mainpc = "done"
    /\ Len(task) = Len(emails)
    /\ Finished = Tasks
    /\ Len(ProgressEvents) = Len(emails)
    /\ ProgressEvents[Len(emails)].value.num
         = 100 * ProgressEvents[Len(emails)].value.den
    /\ Len(SummaryEvents) = 1

C14_CsvColumns ==
  written.format = "csv" =>
    /\ Len(written.rows) = Len(results) + 1
    /\ \A k \in 1..Len(results) :
         LET row == written.rows[k + 1]
             r   == results[k]
         IN  /\ row.email = r.email
             /\ row.has_mx = "N/A" <=> r.has_mx = "None"
             /\ row.has_mx = "Yes" <=> r.has_mx = "True"
             /\ row.has_mx = "No" <=> r.has_mx = "False"
             /\ row.domain_exists = "N/A" <=> r.domain_exists = "None"
             /\ row.domain_exists = "Yes" <=> r.domain_exists = "True"
             /\ row.domain_exists = "No" <=> r.domain_exists = "False"

\* C14 witness: a CSV file with a row of two N/A columns (a malformed
\* address) and a row with Has MX Yes and Domain Exists No
C14_Witness ==
  /\ written.format = "csv"
  /\ \E k, l \in 2..Len(written.rows) :
       /\ written.rows[k].has_mx = "N/A"
       /\ written.rows[k].domain_exists = "N/A"
       /\ written.rows[l].has_mx = "Yes"
       /\ written.rows[l].domain_exists = "No"

(***************************************************************************)
(* Claims about one validate call (SpecValidate)                           *)
(***************************************************************************)
Affirmative(call) ==
  \/ call.probe = "mx" /\ MxLookup(call.domain) = "records"
  \/ call.probe = "exists" /\ AddrLookup(call.domain) = "address"

Probed(which) == \E k \in 1..Len(frame.calls) : frame.calls[k].probe = which

\* C3: resolver boundary.  Every probe call made by validate returns a
\* boolean and raises nothing, whatever the lookup ends in, and every
\* outcome other than an answer gives false.
C3_ProbesNeverRaise ==
  \A k \in 1..Len(frame.calls) :
    LET call == frame.calls[k]
    IN  /\ ~call.ret.raised
        /\ ~Affirmative(call) => call.ret.value = FALSE

\* C16: lifecycle.  A call moves from the format check either to its return
\* with status invalid or through the MX check, the domain check and the
\* classification to its return, and nowhere else; it calls the MX probe at
\* most once and the existence probe at most once, never the MX probe after
\* the existence probe, each exactly once when it is requested and the
\* format check passed; the status is set only once every requested probe
\* has returned.
C16_Lifecycle ==
  LET mx     == {k \in 1..Len(frame.calls) : frame.calls[k].probe = "mx"}
      exists == {k \in 1..Len(frame.calls) : frame.calls[k].probe = "exists"}
  IN  /\ frame.pc \in {"format", "split", "mx", "exists", "status", "returned"}
      /\ Cardinality(mx) <= 1
      /\ Cardinality(exists) <= 1
      /\ \A k \in mx, l \in exists : k < l
      /\ frame.pc \in {"format", "split", "mx"} => frame.calls = <<>>
      /\ (frame.pc = "returned" /\ frame.results.valid_format) =>
           /\ Cardinality(mx) = (IF check_mx THEN 1 ELSE 0)
           /\ Cardinality(exists) = (IF check_domain THEN 1 ELSE 0)
      /\ frame.results.status \in {"valid", "doubtful"} =>
           /\ frame.pc = "returned"
           /\ \A k \in 1..Len(frame.calls) : ~frame.calls[k].ret.raised
      /\ frame.pc = "returned" =>
           frame.results.status \in {"valid", "doubtful", "invalid"}

\* C4: format short-circuit.  For an address that fails the format check no
\* probe is ever invoked, whatever the flags, and the call returns
\* valid_format false, has_mx None, domain_exists None and status invalid.
C4_FormatShortCircuit ==
  ~validate_format(emails[1]) =>
    /\ frame.calls = <<>>
    /\ frame.pc # "raised"
    /\ frame.pc = "returned" =>
         /\ frame.results.valid_format = FALSE
         /\ frame.results.has_mx = "None"
         /\ frame.results.domain_exists = "None"
         /\ frame.results.status = "invalid"

\* C4 witness: a call for an address that fails the format check has
\* returned with both checks requested
C4_Witness ==
  /\ ~validate_format(emails[1])
  /\ check_mx /\ check_domain
  /\ frame.pc = "returned"
  /\ mainpc = "done"

\* C5: classification.  A returned result of a format-valid address has
\* status doubtful exactly when a requested check came out false and valid
\* otherwise; with both checks requested it is valid exactly when both
\* signals are true, and with both skipped it is valid.
C5_Classification ==
  (frame.pc = "returned" /\ validate_format(emails[1])) =>
    LET r == frame.results
        demoted == \/ check_mx /\ r.has_mx = "False"
                   \/ check_domain /\ r.domain_exists = "False"
    IN  /\ r.status = "doubtful" <=> demoted
        /\ r.status = "valid" <=> ~demoted
        /\ (check_mx /\ check_domain) =>
             (r.status = "valid" <=> (r.has_mx = "True" /\ r.domain_exists = "True"))
        /\ (~check_mx /\ ~check_domain) => r.status = "valid"
        /\ check_mx => (r.has_mx = "True" <=> MxLookup(frame.domain) = "records")
        /\ check_domain =>
             (r.domain_exists = "True" <=> AddrLookup(frame.domain) = "address")

\* C5 witness: with both checks requested, the MX lookup answered and the
\* address lookup failed, and the result is doubtful
C5_Witness ==
  /\ frame.pc = "returned"
  /\ check_mx /\ check_domain
  /\ frame.results.has_mx = "True"
  /\ frame.results.domain_exists = "False"
  /\ frame.results.status = "doubtful"

\* C6 as stated: in every returned result has_mx is None exactly when the
\* MX check was not requested and domain_exists is None exactly when the
\* domain check was not requested.
C6_UnknownIffNotRequested ==
  frame.pc = "returned" =>
    /\ frame.results.has_mx = "None" <=> ~check_mx
    /\ frame.results.domain_exists = "None" <=> ~check_domain

\* C6 amended: in every returned result of an address that passes the format
\* check, has_mx is None exactly when the MX check was not requested and
\* domain_exists is None exactly when the domain check was not requested (a
\* failed lookup is recorded as False); for an address that fails the format
\* check both are None whatever was requested.
C6_UnknownIffNotRequestedOrBadFormat ==
  frame.pc = "returned" =>
    /\ frame.results.has_mx = "None"
         <=> (~check_mx \/ ~validate_format(emails[1]))
    /\ frame.results.domain_exists = "None"
         <=> (~check_domain \/ ~validate_format(emails[1]))

\* C6 witness: both checks requested, both lookups failed (the MX query
\* timed out), and both fields are False, not None
C6_Witness ==
  /\ frame.pc = "returned"
  /\ check_mx /\ check_domain
  /\ MxLookup(frame.domain) = "Timeout"
  /\ frame.results.has_mx = "False"
  /\ frame.results.domain_exists = "False"

\* C7: disabled checks.  With the MX check disabled has_mx is None at every
\* point of the call and the MX probe is not invoked; with the domain check
\* disabled domain_exists is None and the existence probe is not invoked.
C7_DisabledStaysUnknown ==
  /\ ~check_mx => (frame.results.has_mx = "None" /\ ~Probed("mx"))
  /\ ~check_domain => (frame.results.domain_exists = "None" /\ ~Probed("exists"))

\* C7 witness: a format-valid address, the MX check disabled and the domain
\* check enabled: the call returned with domain_exists set
C7_Witness ==
  /\ frame.pc = "returned"
  /\ frame.results.valid_format
  /\ ~check_mx /\ check_domain
  /\ frame.results.domain_exists # "None"

\* C8: status/format equivalence.  In every returned result the status is
\* invalid exactly when valid_format is false, which is exactly when the
\* address fails the format check; otherwise it is valid or doubtful.
C8_InvalidIffBadFormat ==
  frame.pc = "returned" =>
    /\ frame.results.status = "invalid" <=> ~frame.results.valid_format
    /\ frame.results.valid_format <=> validate_format(emails[1])
    /\ frame.results.valid_format => frame.results.status \in {"valid", "doubtful"}

\* C8 witness: a format-valid address whose two requested lookups both
\* failed is doubtful, not invalid
C8_Witness ==
  /\ frame.pc = "returned"
  /\ frame.results.valid_format
  /\ frame.results.has_mx = "False"
  /\ frame.results.domain_exists = "False"
  /\ frame.results.status = "doubtful"

====
